---- MODULE Spec2Model ----
(***************************************************************************)
(* a2m.itertools: the generator functions isplit and flatten and the      *)
(* function every_nth (src/a2m/itertools.py) as state machines.            *)
(*                                                                         *)
(* A generator is modelled by its frame: the arguments of the call, the    *)
(* local variables, the position of the suspended body (pc) and what the   *)
(* consumer has observed so far (out, last).  One step of a machine is     *)
(* one consumer request (next()), or one iteration of the body's loop.     *)
(*                                                                         *)
(* A text is a sequence of one-character strings; an argument is a record  *)
(* [kind, val] so that values of the wrong type can be passed too.         *)
(***************************************************************************)
EXTENDS Integers, Sequences, FiniteSets, TLC

(* ---------------------------------------------------------------- bounds *)
MaxTextLen == 4
MaxSepLen == 2
MaxSplit == 2
MaxNodes == 4
MaxItems == 4
MaxN == 3
MaxShift == 3
MaxLiveNodes == 3

Chars == {"a", "b", " "}
NegSplits == {-1, -2}

SeqsUpTo(S, n) == UNION {[1..k -> S] : k \in 0..n}

(* ------------------------------------------------------- argument values *)
Str(s) == [kind |-> "str", val |-> s]
NoneArg == [kind |-> "none", val |-> <<>>]
NotStr == [kind |-> "int", val |-> <<>>]

IntArg(n) == [kind |-> "int", n |-> n]
NoneSplit == [kind |-> "none", n |-> 0]
NotInt == [kind |-> "str", n |-> 0]

TextArgs == {Str(s) : s \in SeqsUpTo(Chars, MaxTextLen)} \cup {NotStr}
SepArgs == {Str(s) : s \in SeqsUpTo(Chars, MaxSepLen)} \cup {NoneArg, NotStr}
MaxsplitArgs == {IntArg(n) : n \in NegSplits \cup (0..MaxSplit)} \cup {NoneSplit, NotInt}

(* flatten's values *)
(* A value is a node [tag, val, s, kids]: an int (val), a text (s, its   *)
(* characters), or a list or a tuple (kids, its items).                  *)
IntNode(n) == [tag |-> "int", val |-> n, s |-> <<>>, kids |-> <<>>]
TextNode(s) == [tag |-> "str", val |-> 0, s |-> s, kids |-> <<>>]
Container(t, ks) == [tag |-> t, val |-> 0, s |-> <<>>, kids |-> ks]

(* iter(x), and the state of an iterator *)
Iter(x) == [over |-> x, idx |-> 0]

(* str.isspace() of one character *)
isspace(char) == char = " "

(* t without its leading whitespace *)
RECURSIVE LStripChars(_)
LStripChars(t) ==
    IF t # <<>> /\ isspace(Head(t)) THEN LStripChars(Tail(t)) ELSE t

(* six.text_type('').join: the characters of the list, in order, as a text *)
RECURSIVE joined(_)
joined(chars) ==
    IF chars = <<>> THEN <<>> ELSE <<Head(chars)>> \o joined(Tail(chars))

VARIABLES
    call,        \* isplit's arguments as passed: [text, sep, maxsplit] (line 216)
    maxsplit,    \* the local maxsplit, rebound by lines 252-253
    pc,          \* where the generator body stands: "created", "ws" (line 263),
                 \* "yield_ws" (271), "yield_ws_end" (276), "lit" (287),
                 \* "yield_lit" (296), "yield_lit_end" (302), "done", "raised"
    it,          \* iter(text) (line 260): the number of characters consumed
    chunk,       \* the accumulator (line 259)
    window,      \* the separator window (line 286; a tuple after line 294)
    splitcount,  \* line 258
    err,         \* the exception raised to the consumer, or "none"
    out,         \* the fields the consumer has received, in order
    last,        \* the outcome of the consumer's last request
    fl_call,     \* flatten's arguments as passed:
                 \* [thing, protected_iterables, enforce_scalar] (line 24)
    fl_pc,       \* where the generator body stands: "created", "loop" (line 91),
                 \* "yield" (108), "done", "raised"
    fl_it,       \* flatten's current iterator `it` (lines 89, 96, 111)
    iterators,   \* the stack of suspended iterators (line 88)
    thing,       \* the local `thing`: the item pulled last (line 93)
    fl_err,      \* the exception flatten raised to the consumer, or "none"
    fl_out,      \* the elements the consumer has received from flatten
    fl_last,     \* the outcome of the consumer's last request to flatten
    en_call,     \* every_nth's arguments as passed: [thing, n, shift] (line 114)
    en_pc,       \* "uncalled", "raised" (lines 152, 154, 157, 159, 162), or the
                 \* returned iterator: "ready", "running" (inside next()), "done"
    en_it,       \* the iterator `it` of lines 159 and 162
    en_err,      \* the exception every_nth raised to the caller, or "none"
    en_out,      \* the elements the consumer has received from every_nth
    en_last      \* the outcome of the call or of the consumer's last request

isplit_vars == <<call, maxsplit, pc, it, chunk, window, splitcount, err, out, last>>
flatten_vars == <<fl_call, fl_pc, fl_it, iterators, thing, fl_err, fl_out, fl_last>>
nth_vars == <<en_call, en_pc, en_it, en_err, en_out, en_last>>
vars == <<isplit_vars, flatten_vars, nth_vars>>

(* ------------------------------------------------------------- isplit *)
(* The frame of an isplit generator, as a record: the step operators     *)
(* below map a frame to the frame after the step.                        *)
Frame ==
    [call |-> call, maxsplit |-> maxsplit, pc |-> pc, it |-> it,
     chunk |-> chunk, window |-> window, splitcount |-> splitcount,
     err |-> err, out |-> out, last |-> last]

NewFrame(text, sep, ms) ==
    [call |-> [text |-> text, sep |-> sep, maxsplit |-> ms],
     maxsplit |-> ms, pc |-> "created", it |-> 0,
     chunk |-> <<>>, window |-> <<>>, splitcount |-> 0,
     err |-> "none", out |-> <<>>, last |-> "none"]

(* raise E: the exception reaches the consumer and the generator is finished *)
Raise(f, E) == [f EXCEPT !.pc = "raised", !.err = E, !.last = "error"]

(* yield joined(chunk): the consumer receives the field, the body is suspended *)
Yield(f, at) ==
    [f EXCEPT !.pc = at, !.out = Append(@, joined(f.chunk)), !.last = "field"]

(* the body ends: StopIteration reaches the consumer *)
Return(f) == [f EXCEPT !.pc = "done", !.last = "stop"]

(* tuple(it): the characters not yet consumed *)
Rest(f) == SubSeq(f.call.text.val, f.it + 1, Len(f.call.text.val))

(* a faulty variant: maxsplit None becomes 0 *)
NormMaxsplit_Zero(ms) == IF ms.kind = "none" THEN IntArg(0) ELSE ms

(* lines 252-255: maxsplit None becomes -1 *)
NormMaxsplit(ms) == IF ms.kind = "none" THEN IntArg(-1) ELSE ms

(* a faulty variant: the limit is tested with > instead of == *)
LimitReached_Greater(f) == f.splitcount > f.maxsplit.n

(* line 267, line 293 *)
LimitReached(f) == f.splitcount = f.maxsplit.n

(* a faulty variant: the empty separator is reported as a TypeError *)
Start_EmptySepTypeError(f) ==
    IF f.call.text.kind # "str" THEN Raise(f, "TypeError")
    ELSE IF f.maxsplit.kind \notin {"none", "int"} THEN Raise(f, "TypeError")
    ELSE LET g == [f EXCEPT !.maxsplit = NormMaxsplit(@), !.splitcount = 0,
                            !.chunk = <<>>, !.it = 0]
         IN  IF g.call.sep.kind = "none" THEN [g EXCEPT !.pc = "ws"]
             ELSE IF g.call.sep.kind # "str" \/ g.call.sep.val = <<>>
             THEN Raise(g, "TypeError")
             ELSE [g EXCEPT !.pc = "lit", !.window = <<>>]

(* a faulty variant: the test for an empty separator (lines 281-282) left out *)
Start_NoEmptyCheck(f) ==
    IF f.call.text.kind # "str" THEN Raise(f, "TypeError")
    ELSE IF f.maxsplit.kind \notin {"none", "int"} THEN Raise(f, "TypeError")
    ELSE LET g == [f EXCEPT !.maxsplit = NormMaxsplit(@), !.splitcount = 0,
                            !.chunk = <<>>, !.it = 0]
         IN  IF g.call.sep.kind = "none" THEN [g EXCEPT !.pc = "ws"]
             ELSE IF g.call.sep.kind # "str" THEN Raise(g, "TypeError")
             ELSE [g EXCEPT !.pc = "lit", !.window = <<>>]

(* lines 249-260, and the choice of mode in lines 262, 278-285: what the *)
(* first request runs before the loop                                    *)
Start(f) ==
    IF f.call.text.kind # "str" THEN Raise(f, "TypeError")
    ELSE IF f.maxsplit.kind \notin {"none", "int"} THEN Raise(f, "TypeError")
    ELSE LET g == [f EXCEPT !.maxsplit = NormMaxsplit(@), !.splitcount = 0,
                            !.chunk = <<>>, !.it = 0]
         IN  IF g.call.sep.kind = "none" THEN [g EXCEPT !.pc = "ws"]
             ELSE IF g.call.sep.kind # "str" THEN Raise(g, "TypeError")
             ELSE IF g.call.sep.val = <<>> THEN Raise(g, "ValueError")
             ELSE [g EXCEPT !.pc = "lit", !.window = <<>>]

(* a faulty variant: the whole run of whitespace after a field is read *)
(* before the field is yielded                                        *)
WsChar_SkipRun(f) ==
    LET char == f.call.text.val[f.it + 1]
        g == [f EXCEPT !.it = @ + 1]
        run == Len(Rest(g)) - Len(LStripChars(Rest(g)))
    IN  IF ~isspace(char) THEN [g EXCEPT !.chunk = Append(@, char)]
        ELSE IF g.chunk # <<>> THEN
            IF LimitReached(g)
            THEN [g EXCEPT !.chunk = Append(@, char) \o Rest(g),
                           !.it = Len(g.call.text.val)]
            ELSE Yield([g EXCEPT !.it = @ + run], "yield_ws")
        ELSE g

(* lines 263-273: one iteration of the whitespace loop on the next character *)
WsChar(f) ==
    LET char == f.call.text.val[f.it + 1]
        g == [f EXCEPT !.it = @ + 1]
    IN  IF ~isspace(char) THEN [g EXCEPT !.chunk = Append(@, char)]
        ELSE IF g.chunk # <<>> THEN
            IF LimitReached(g)
            THEN [g EXCEPT !.chunk = Append(@, char) \o Rest(g),
                           !.it = Len(g.call.text.val)]
            ELSE Yield(g, "yield_ws")
        ELSE g

(* a faulty variant: the final field is yielded even when the accumulator is empty *)
WsElse_Always(f) == Yield(f, "yield_ws_end")

(* lines 274-276: the loop's else clause, when the text is exhausted *)
WsElse(f) == IF f.chunk # <<>> THEN Yield(f, "yield_ws_end") ELSE Return(f)

(* lines 272-273: the statements after the yield of line 271 *)
WsResume(f) == [f EXCEPT !.chunk = <<>>, !.splitcount = @ + 1, !.pc = "ws"]

(* lines 288-290: the character enters the window; a full window gives its *)
(* oldest character to the accumulator                                     *)
(* a faulty variant: the full window gives up its newest character *)
Slide_PopRight(f, char) ==
    LET w == Append(f.window, char)
    IN  IF Len(w) = Len(f.call.sep.val) + 1
        THEN [f EXCEPT !.chunk = Append(@, w[Len(w)]), !.window = SubSeq(w, 1, Len(w) - 1)]
        ELSE [f EXCEPT !.window = w]

Slide(f, char) ==
    LET w == Append(f.window, char)
    IN  IF Len(w) = Len(f.call.sep.val) + 1
        THEN [f EXCEPT !.chunk = Append(@, Head(w)), !.window = Tail(w)]
        ELSE [f EXCEPT !.window = w]

(* lines 287-299: one iteration of the literal-separator loop *)
LitChar(f) ==
    LET char == f.call.text.val[f.it + 1]
        g == Slide([f EXCEPT !.it = @ + 1], char)
    IN  IF g.window = g.call.sep.val THEN
            IF LimitReached(g)
            THEN [g EXCEPT !.window = g.window \o Rest(g),
                           !.it = Len(g.call.text.val)]
            ELSE Yield(g, "yield_lit")
        ELSE g

(* a faulty variant: the final field is yielded only when it is not empty *)
LitElse_SkipEmpty(f) ==
    IF f.chunk \o f.window # <<>>
    THEN Yield([f EXCEPT !.chunk = f.chunk \o f.window], "yield_lit_end")
    ELSE Return(f)

(* a faulty variant: chunk.extend(window) of line 301 forgotten *)
LitElse_DropsWindow(f) == Yield(f, "yield_lit_end")

(* lines 300-302: the loop's else clause *)
LitElse(f) ==
    Yield([f EXCEPT !.chunk = f.chunk \o f.window], "yield_lit_end")

(* a faulty variant: window.clear() of line 299 forgotten *)
LitResume_KeepWindow(f) ==
    [f EXCEPT !.chunk = <<>>, !.splitcount = @ + 1, !.pc = "lit"]

(* a faulty variant: after a match the window keeps all but its first *)
(* character                                                          *)
LitResume_Overlap(f) ==
    [f EXCEPT !.chunk = <<>>, !.splitcount = @ + 1, !.window = Tail(@), !.pc = "lit"]

(* lines 297-299: the statements after the yield of line 296 *)
LitResume(f) ==
    [f EXCEPT !.chunk = <<>>, !.splitcount = @ + 1, !.window = <<>>, !.pc = "lit"]

(* next() on a generator that has finished: StopIteration *)
Finished(f) == [f EXCEPT !.last = "stop"]

Install(f) ==
    /\ call' = f.call
    /\ maxsplit' = f.maxsplit
    /\ pc' = f.pc
    /\ it' = f.it
    /\ chunk' = f.chunk
    /\ window' = f.window
    /\ splitcount' = f.splitcount
    /\ err' = f.err
    /\ out' = f.out
    /\ last' = f.last
    /\ UNCHANGED <<flatten_vars, nth_vars>>

TextLen == Len(call.text.val)

(* the consumer's first next(): the body runs up to the loop *)
RequestFirst == pc = "created" /\ Install(Start(Frame))

(* the consumer's next() on a suspended generator *)
RequestWs == pc = "yield_ws" /\ Install(WsResume(Frame))
RequestLit == pc = "yield_lit" /\ Install(LitResume(Frame))
RequestLast == pc \in {"yield_ws_end", "yield_lit_end"} /\ Install(Return(Frame))
RequestFinished ==
    pc \in {"done", "raised"} /\ last # "stop" /\ Install(Finished(Frame))

(* the body's loops *)
WsStep == pc = "ws" /\ it < TextLen /\ Install(WsChar(Frame))
WsEnd == pc = "ws" /\ it = TextLen /\ Install(WsElse(Frame))
LitStep == pc = "lit" /\ it < TextLen /\ Install(LitChar(Frame))
LitEnd == pc = "lit" /\ it = TextLen /\ Install(LitElse(Frame))

(* no call of flatten is in progress *)
(* the iterators every_nth returns: iter(thing) of line 159 and the     *)
(* islice of line 162, as [cnt, next, step]: cnt elements of thing have *)
(* been read, the element at 0-based position next is the next to emit  *)
NoIterator == [kind |-> "none", cnt |-> 0, next |-> 0, step |-> 1]

(* no call of every_nth is in progress *)
NoEveryNth ==
    /\ en_call = [thing |-> [iterable |-> FALSE, items |-> <<>>],
                  n |-> NotInt, shift |-> NotInt]
    /\ en_pc = "idle"
    /\ en_it = NoIterator
    /\ en_err = "none"
    /\ en_out = <<>>
    /\ en_last = "none"

NoFlatten ==
    /\ fl_call = [thing |-> IntNode(0), protected_iterables |-> {},
                  enforce_scalar |-> "none"]
    /\ fl_pc = "idle"
    /\ fl_it = Iter(IntNode(0))
    /\ iterators = <<>>
    /\ thing = IntNode(0)
    /\ fl_err = "none"
    /\ fl_out = <<>>
    /\ fl_last = "none"

IsplitInit ==
    \E text \in TextArgs, sep \in SepArgs, ms \in MaxsplitArgs :
        /\ call = [text |-> text, sep |-> sep, maxsplit |-> ms]
        /\ maxsplit = ms
        /\ pc = "created"
        /\ it = 0
        /\ chunk = <<>>
        /\ window = <<>>
        /\ splitcount = 0
        /\ err = "none"
        /\ out = <<>>
        /\ last = "none"
        /\ NoEveryNth
        /\ NoFlatten

IsplitNext ==
    \/ RequestFirst
    \/ RequestWs
    \/ RequestLit
    \/ RequestLast
    \/ RequestFinished
    \/ WsStep
    \/ WsEnd
    \/ LitStep
    \/ LitEnd


(* list(isplit(...)): the fields of a complete consumption of a frame *)
RECURSIVE Consume(_)
Consume(f) ==
    IF f.pc = "created" THEN Consume(Start(f))
    ELSE IF f.pc = "ws" THEN
        Consume(IF f.it < Len(f.call.text.val) THEN WsChar(f) ELSE WsElse(f))
    ELSE IF f.pc = "lit" THEN
        Consume(IF f.it < Len(f.call.text.val) THEN LitChar(f) ELSE LitElse(f))
    ELSE IF f.pc = "yield_ws" THEN Consume(WsResume(f))
    ELSE IF f.pc = "yield_lit" THEN Consume(LitResume(f))
    ELSE IF f.pc \in {"yield_ws_end", "yield_lit_end"} THEN Consume(Return(f))
    ELSE f.out

(* ------------------------------------------------------------ flatten *)
ContainerTypes == {"list", "tuple"}
Scalars == {IntNode(1), IntNode(2), TextNode(<<"a", "b">>)}

(* the values of n nodes, and the sequences of values of m nodes in all *)
RECURSIVE TreesOfSize(_), ForestsOfSize(_)
TreesOfSize(n) ==
    (IF n = 1 THEN Scalars ELSE {})
        \cup {Container(t, ks) : t \in ContainerTypes, ks \in ForestsOfSize(n - 1)}
ForestsOfSize(m) ==
    IF m = 0 THEN {<<>>}
    ELSE UNION {{<<t>> \o f : t \in TreesOfSize(k), f \in ForestsOfSize(m - k)} :
                    k \in 1..m}

Things == UNION {TreesOfSize(n) : n \in 1..MaxNodes}
ProtectedChoices == {{}, {"tuple"}, {"list", "tuple"}}
EnforceScalars ==
    {"none", "not_callable", "always", "never", "short", "len_lt_3", "lt_2",
     "raises", "raises_value"}

(* iter(x) succeeds *)
Iterable(x) == x.tag \in {"str", "list", "tuple"}

(* what iterating x yields: the items of a container, the characters of a text *)
Items(x) ==
    IF x.tag = "str" THEN [i \in 1..Len(x.s) |-> TextNode(<<x.s[i]>>)] ELSE x.kids

Exhausted(i) == i.idx >= Len(Items(i.over))
Peek(i) == Items(i.over)[i.idx + 1]
Advance(i) == [i EXCEPT !.idx = @ + 1]

(* six.string_types *)
string_types == {"str"}

(* a faulty variant: six.string_types left out of line 90 *)
protected_iterables_NoStrings(f) == f.call.protected_iterables

(* line 90: protected_iterables as rebound *)
protected_iterables(f) == string_types \cup f.call.protected_iterables

(* callable(enforce_scalar) *)
callable(p) == p \notin {"none", "not_callable"}

(* enforce_scalar(x) for the predicates a caller may pass: "true", "false", *)
(* or the name of the exception the predicate raises.                       *)
(*   always, never   lambda x: True, lambda x: False                        *)
(*   short           the doctest's protect_short (line 61)                  *)
(*   len_lt_3        lambda s: len(s) < 3   (TypeError on an int)           *)
(*   lt_2            lambda x: x < 2        (TypeError on a container)      *)
(*   raises          a predicate that raises KeyError                       *)
(*   raises_value    a predicate that raises ValueError                     *)
enforce_scalar(p, x) ==
    CASE p = "always" -> "true"
      [] p = "never" -> "false"
      [] p = "short" ->
            IF Iterable(x) /\ Len(Items(x)) < 3 THEN "true" ELSE "false"
      [] p = "len_lt_3" ->
            IF ~Iterable(x) THEN "TypeError"
            ELSE IF Len(Items(x)) < 3 THEN "true" ELSE "false"
      [] p = "lt_2" ->
            IF x.tag # "int" THEN "TypeError"
            ELSE IF x.val < 2 THEN "true" ELSE "false"
      [] p = "raises" -> "KeyError"
      [] p = "raises_value" -> "ValueError"

FlFrame ==
    [call |-> fl_call, pc |-> fl_pc, it |-> fl_it, iterators |-> iterators,
     thing |-> thing, err |-> fl_err, out |-> fl_out, last |-> fl_last]

FlRaise(f, E) == [f EXCEPT !.pc = "raised", !.err = E, !.last = "error"]
FlReturn(f) == [f EXCEPT !.pc = "done", !.last = "stop"]
FlYield(f) == [f EXCEPT !.pc = "yield", !.out = Append(@, f.thing), !.last = "element"]

(* a faulty variant: a top-level value that is not iterable gives an empty *)
(* sequence                                                                *)
FlStart_Silent(f) ==
    IF ~Iterable(f.call.thing) THEN FlReturn(f)
    ELSE [f EXCEPT !.iterators = <<>>, !.it = Iter(f.call.thing), !.pc = "loop"]

(* lines 88-90: what the first request runs before the loop *)
FlStart(f) ==
    IF ~Iterable(f.call.thing) THEN FlRaise(f, "TypeError")
    ELSE [f EXCEPT !.iterators = <<>>, !.it = Iter(f.call.thing), !.pc = "loop"]

(* a faulty variant: the traversal ends at the first exhausted iterator *)
FlPop_Stop(f) == FlReturn(f)

(* a faulty variant: below the top level the exhausted iterator is not *)
(* replaced by its parent                                             *)
FlPop_Spin(f) == IF f.iterators = <<>> THEN FlReturn(f) ELSE f

(* lines 94-98: the current iterator is exhausted *)
FlPop(f) ==
    IF f.iterators = <<>> THEN FlReturn(f)
    ELSE [f EXCEPT !.it = f.iterators[Len(f.iterators)],
                   !.iterators = SubSeq(@, 1, Len(@) - 1)]

(* a faulty variant: isinstance of line 102 tests the built-in text types only *)
Decide_NoUserTypes(f, x) ==
    IF x.tag \in string_types THEN "yield"
    ELSE LET r == IF callable(f.call.enforce_scalar)
                  THEN enforce_scalar(f.call.enforce_scalar, x) ELSE "false"
         IN  IF r = "true" THEN "yield"
             ELSE IF r \in {"TypeError", "ValueError"} THEN "yield"
             ELSE IF r # "false" THEN r
             ELSE IF ~Iterable(x) THEN "yield"
             ELSE "descend"

(* a faulty variant: the except clause of line 105 names ValueError only *)
Decide_TypeErrorEscapes(f, x) ==
    IF x.tag \in protected_iterables(f) THEN "yield"
    ELSE LET r == IF callable(f.call.enforce_scalar)
                  THEN enforce_scalar(f.call.enforce_scalar, x) ELSE "false"
         IN  IF r = "true" THEN "yield"
             ELSE IF r = "ValueError" THEN "yield"
             ELSE IF r # "false" THEN r
             ELSE IF ~Iterable(x) THEN "TypeError"
             ELSE "descend"

(* a faulty variant: the predicate is called outside the try statement *)
Decide_PredicateErrorsEscape(f, x) ==
    IF x.tag \in protected_iterables(f) THEN "yield"
    ELSE LET r == IF callable(f.call.enforce_scalar)
                  THEN enforce_scalar(f.call.enforce_scalar, x) ELSE "false"
         IN  IF r = "true" THEN "yield"
             ELSE IF r # "false" THEN r
             ELSE IF ~Iterable(x) THEN "yield"
             ELSE "descend"

(* lines 100-107: what the try statement decides for the pulled item: *)
(* "yield", "descend", or the exception that leaves the generator     *)
Decide(f, x) ==
    IF x.tag \in protected_iterables(f) THEN "yield"
    ELSE LET r == IF callable(f.call.enforce_scalar)
                  THEN enforce_scalar(f.call.enforce_scalar, x) ELSE "false"
         IN  IF r = "true" THEN "yield"
             ELSE IF r \in {"TypeError", "ValueError"} THEN "yield"
             ELSE IF r # "false" THEN r
             ELSE IF ~Iterable(x) THEN "yield"
             ELSE "descend"

(* a faulty variant: an iterator with nothing left is not pushed on descent *)
FlItem_DropsExhaustedParent(f) ==
    LET x == Peek(f.it)
        g == [f EXCEPT !.thing = x, !.it = Advance(@)]
        d == Decide(g, x)
    IN  IF d = "yield" THEN FlYield(g)
        ELSE IF d = "descend"
        THEN [g EXCEPT !.iterators = IF Exhausted(g.it) THEN @ ELSE Append(@, g.it),
                       !.it = Iter(x)]
        ELSE FlRaise(g, d)

(* lines 93, 100-111: an item is pulled and is yielded or descended into *)
FlItem(f) ==
    LET x == Peek(f.it)
        g == [f EXCEPT !.thing = x, !.it = Advance(@)]
        d == Decide(g, x)
    IN  IF d = "yield" THEN FlYield(g)
        ELSE IF d = "descend"
        THEN [g EXCEPT !.iterators = Append(@, g.it), !.it = Iter(x)]
        ELSE FlRaise(g, d)

(* the loop goes on after the yield of line 108 *)
FlResume(f) == [f EXCEPT !.pc = "loop"]

FlFinished(f) == [f EXCEPT !.last = "stop"]

FlInstall(f) ==
    /\ fl_call' = f.call
    /\ fl_pc' = f.pc
    /\ fl_it' = f.it
    /\ iterators' = f.iterators
    /\ thing' = f.thing
    /\ fl_err' = f.err
    /\ fl_out' = f.out
    /\ fl_last' = f.last
    /\ UNCHANGED <<isplit_vars, nth_vars>>

FlRequestFirst == fl_pc = "created" /\ FlInstall(FlStart(FlFrame))
FlRequest == fl_pc = "yield" /\ FlInstall(FlResume(FlFrame))
FlRequestFinished ==
    fl_pc \in {"done", "raised"} /\ fl_last # "stop" /\ FlInstall(FlFinished(FlFrame))
FlPull == fl_pc = "loop" /\ ~Exhausted(fl_it) /\ FlInstall(FlItem(FlFrame))
FlExhausted == fl_pc = "loop" /\ Exhausted(fl_it) /\ FlInstall(FlPop(FlFrame))

(* no call of isplit is in progress *)
NoIsplit ==
    /\ call = [text |-> NotStr, sep |-> NoneArg, maxsplit |-> NoneSplit]
    /\ maxsplit = NoneSplit
    /\ pc = "idle"
    /\ it = 0
    /\ chunk = <<>>
    /\ window = <<>>
    /\ splitcount = 0
    /\ err = "none"
    /\ out = <<>>
    /\ last = "none"

FlattenInit ==
    \E x \in Things, p \in ProtectedChoices, e \in EnforceScalars :
        /\ fl_call = [thing |-> x, protected_iterables |-> p, enforce_scalar |-> e]
        /\ fl_pc = "created"
        /\ fl_it = Iter(x)
        /\ iterators = <<>>
        /\ thing = x
        /\ fl_err = "none"
        /\ fl_out = <<>>
        /\ fl_last = "none"
        /\ NoEveryNth
        /\ NoIsplit

FlattenNext ==
    \/ FlRequestFirst
    \/ FlRequest
    \/ FlRequestFinished
    \/ FlPull
    \/ FlExhausted

(* ---------------------------------------------------------- every_nth *)
NthElements == {"p", "q"}
NotPositive == {-1, 0}

NthThings ==
    {[iterable |-> TRUE, items |-> s] : s \in SeqsUpTo(NthElements, MaxItems)}
        \cup {[iterable |-> FALSE, items |-> <<>>]}
NArgs == {IntArg(k) : k \in NotPositive \cup (1..MaxN)} \cup {NotInt}
ShiftArgs == {IntArg(k) : k \in (-MaxShift)..MaxShift} \cup {NotInt}

(* iter(thing) *)
ListIter == [kind |-> "iter", cnt |-> 0, next |-> 0, step |-> 1]

(* itertools.islice(thing, start, None, step) *)
islice(start, step) == [kind |-> "islice", cnt |-> 0, next |-> start, step |-> step]

(* a faulty variant: the shift is not decreased by one *)
islice_start_NoDecrement(n, shift) == shift % n

(* line 162: the start of the slice; Python's % of a positive n is never *)
(* negative, as is the % of the Integers module                          *)
islice_start(n, shift) == (shift - 1) % n

EnRaise(E) == [pc |-> "raised", it |-> NoIterator, err |-> E, last |-> "error"]
EnReturn(i) == [pc |-> "ready", it |-> i, err |-> "none", last |-> "none"]

(* lines 151-164: the call, which runs eagerly *)
every_nth(c) ==
    IF c.n.kind # "int" THEN EnRaise("TypeError")
    ELSE IF c.shift.kind # "int" THEN EnRaise("TypeError")
    ELSE IF c.n.n < 1 THEN EnRaise("ValueError")
    ELSE IF ~c.thing.iterable THEN EnRaise("TypeError")
    ELSE IF c.n.n = 1 THEN EnReturn(ListIter)
    ELSE EnReturn(islice(islice_start(c.n.n, c.shift.n), c.n.n))

EnItems == en_call.thing.items

EnCall ==
    /\ en_pc = "uncalled"
    /\ LET r == every_nth(en_call)
       IN  /\ en_pc' = r.pc
           /\ en_it' = r.it
           /\ en_err' = r.err
           /\ en_last' = r.last
    /\ UNCHANGED <<en_call, en_out, isplit_vars, flatten_vars>>

(* the consumer calls next() on the returned iterator *)
EnRequest ==
    /\ en_pc = "ready"
    /\ en_pc' = "running"
    /\ UNCHANGED <<en_call, en_it, en_err, en_out, en_last, isplit_vars, flatten_vars>>

(* islice reads an element before the next position to emit and drops it *)
EnSkip ==
    /\ en_pc = "running"
    /\ en_it.cnt < Len(EnItems)
    /\ en_it.cnt < en_it.next
    /\ en_it' = [en_it EXCEPT !.cnt = @ + 1]
    /\ UNCHANGED <<en_call, en_pc, en_err, en_out, en_last, isplit_vars, flatten_vars>>

(* the element at the position to emit is read and returned *)
EnTake ==
    /\ en_pc = "running"
    /\ en_it.cnt < Len(EnItems)
    /\ en_it.cnt = en_it.next
    /\ en_it' = [en_it EXCEPT !.cnt = @ + 1, !.next = @ + en_it.step]
    /\ en_out' = Append(en_out, EnItems[en_it.cnt + 1])
    /\ en_pc' = "ready"
    /\ en_last' = "element"
    /\ UNCHANGED <<en_call, en_err, isplit_vars, flatten_vars>>

(* thing is exhausted: StopIteration *)
EnExhausted ==
    /\ en_pc = "running"
    /\ en_it.cnt >= Len(EnItems)
    /\ en_pc' = "done"
    /\ en_last' = "stop"
    /\ UNCHANGED <<en_call, en_it, en_err, en_out, isplit_vars, flatten_vars>>

EveryNthInit ==
    \E x \in NthThings, n \in NArgs, shift \in ShiftArgs :
        /\ en_call = [thing |-> x, n |-> n, shift |-> shift]
        /\ en_pc = "uncalled"
        /\ en_it = NoIterator
        /\ en_err = "none"
        /\ en_out = <<>>
        /\ en_last = "none"
        /\ NoIsplit
        /\ NoFlatten

EveryNthNext ==
    \/ EnCall
    \/ EnRequest
    \/ EnSkip
    \/ EnTake
    \/ EnExhausted

SpecEveryNth == EveryNthInit /\ [][EveryNthNext]_vars

SpecIsplit == IsplitInit /\ [][IsplitNext]_vars
SpecFlatten == FlattenInit /\ [][FlattenNext]_vars

(* flatten with a consumer that keeps requesting: a request that can be *)
(* made is made, and the body, once resumed, runs on to its next yield, *)
(* return or raise                                                      *)
(* The structures are those of at most MaxLiveNodes nodes.               *)
LiveThings == UNION {TreesOfSize(n) : n \in 1..MaxLiveNodes}

FlattenLiveInit ==
    \E x \in LiveThings, p \in ProtectedChoices, e \in EnforceScalars :
        /\ fl_call = [thing |-> x, protected_iterables |-> p, enforce_scalar |-> e]
        /\ fl_pc = "created"
        /\ fl_it = Iter(x)
        /\ iterators = <<>>
        /\ thing = x
        /\ fl_err = "none"
        /\ fl_out = <<>>
        /\ fl_last = "none"
        /\ NoEveryNth
        /\ NoIsplit

SpecFlattenLive == FlattenLiveInit /\ [][FlattenNext]_vars /\ WF_vars(FlattenNext)

(* a run of the library: one call of isplit or one call of flatten *)
LibraryInit == IsplitInit \/ FlattenInit
LibraryNext == IsplitNext \/ FlattenNext
SpecLibrary == LibraryInit /\ [][LibraryNext]_vars

(* ===================================================== claims: isplit *)
Text == call.text.val
Sep == call.sep.val
WsMode == call.sep.kind = "none"
LitMode == call.sep.kind = "str" /\ call.sep.val # <<>>
ValidCall ==
    /\ call.text.kind = "str"
    /\ call.maxsplit.kind \in {"none", "int"}
    /\ WsMode \/ LitMode
(* the limit as the caller gave it: none is unlimited, written -1 *)
Limit == IF call.maxsplit.kind = "none" THEN -1 ELSE call.maxsplit.n

(* The eager split, defined on the text as a whole.                       *)
(* Whitespace runs: leading whitespace is dropped; with no split left the  *)
(* rest is one field; otherwise the first word is a field and the rest is  *)
(* split with one split fewer.  A negative limit never reaches zero.       *)
RECURSIVE LStrip(_)
LStrip(t) == IF t # <<>> /\ isspace(Head(t)) THEN LStrip(Tail(t)) ELSE t

RECURSIVE WordLen(_)
WordLen(t) == IF t = <<>> \/ isspace(Head(t)) THEN 0 ELSE 1 + WordLen(Tail(t))

RECURSIVE EagerSplitWs(_, _)
EagerSplitWs(t, n) ==
    LET u == LStrip(t)
        k == WordLen(u)
    IN  IF u = <<>> THEN <<>>
        ELSE IF n = 0 THEN <<u>>
        ELSE <<SubSeq(u, 1, k)>> \o EagerSplitWs(SubSeq(u, k + 1, Len(u)), n - 1)

(* the positions at which d occurs in t *)
Occurrences(t, d) ==
    {i \in 1..(Len(t) - Len(d) + 1) : SubSeq(t, i, i + Len(d) - 1) = d}

Min(S) == CHOOSE x \in S : \A y \in S : x <= y

(* Literal separator: with no split left or no occurrence the text is one  *)
(* field; otherwise the text before the leftmost occurrence is a field and *)
(* the text after it is split with one split fewer.                        *)
RECURSIVE EagerSplitSep(_, _, _)
EagerSplitSep(t, d, n) ==
    IF n = 0 \/ Occurrences(t, d) = {} THEN <<t>>
    ELSE LET i == Min(Occurrences(t, d))
         IN  <<SubSeq(t, 1, i - 1)>>
                 \o EagerSplitSep(SubSeq(t, i + Len(d), Len(t)), d, n - 1)

EagerSplit ==
    IF WsMode THEN EagerSplitWs(Text, Limit) ELSE EagerSplitSep(Text, Sep, Limit)

(* C1: when a valid call has been consumed to the end, the fields the     *)
(* consumer received are, in order, the fields of the eager split of the  *)
(* text on the separator with at most maxsplit splits.                    *)
C1_EagerSplitEquality == pc = "done" => out = EagerSplit

(* a text with separators on both sides of the limit has been split *)
C1_Witness ==
    /\ pc = "done"
    /\ Limit = 1
    /\ Len(out) = 2
    /\ Len(Text) = MaxTextLen
    /\ \E i \in 1..Len(out[2]) : out[2][i] = " "

(* ==================================================== claims: flatten *)
Root == fl_call.thing
NoProtection == fl_call.protected_iterables = {} /\ fl_call.enforce_scalar = "none"
IsContainer(x) == x.tag \in ContainerTypes

(* the leaf scalars of a sequence of items, read left to right, depth first *)
RECURSIVE Leaves(_)
Leaves(items) ==
    IF items = <<>> THEN <<>>
    ELSE (IF IsContainer(Head(items)) THEN Leaves(Head(items).kids)
          ELSE <<Head(items)>>) \o Leaves(Tail(items))

IsPrefix(a, b) == Len(a) <= Len(b) /\ SubSeq(b, 1, Len(a)) = a

(* C2: with no protected types and no predicate, what flatten has emitted *)
(* is at every moment a prefix of the leaf scalars of the structure in    *)
(* left-to-right, depth-first order, and at exhaustion it is all of them. *)
C2_DepthFirstLeaves ==
    NoProtection /\ fl_pc \notin {"idle", "raised"} =>
        /\ IsPrefix(fl_out, Leaves(Items(Root)))
        /\ fl_pc = "done" => fl_out = Leaves(Items(Root))

(* a structure with two different leaves, one of them inside a nested *)
(* container, has been flattened                                      *)
C2_Witness ==
    /\ NoProtection
    /\ fl_pc = "done"
    /\ Len(fl_out) = 2
    /\ fl_out[1] # fl_out[2]
    /\ \E i \in 1..Len(Root.kids) :
          IsContainer(Root.kids[i]) /\ Root.kids[i].kids # <<>>

(* the loop is about to pull an item: Peek(fl_it) *)
Pulling == fl_pc = "loop" /\ ~Exhausted(fl_it)

(* the step emits x whole and does not descend *)
EmitsWhole(x) ==
    /\ fl_pc' = "yield"
    /\ fl_out' = Append(fl_out, x)
    /\ iterators' = iterators
    /\ fl_it' = Advance(fl_it)

(* the step descends into x and emits nothing *)
DescendsInto(x) ==
    /\ fl_pc' = "loop"
    /\ fl_out' = fl_out
    /\ iterators' = Append(iterators, Advance(fl_it))
    /\ fl_it' = Iter(x)

(* C3: whatever protected_iterables and enforce_scalar are, a text item   *)
(* pulled at any nesting level is emitted whole as one element and is not *)
(* descended into.                                                        *)
C3_TextNeverDescended ==
    [][Pulling /\ Peek(fl_it).tag = "str" => EmitsWhole(Peek(fl_it))]_vars

(* a text of two characters, nested, emitted under a predicate that *)
(* returns false for it                                             *)
C3_Witness ==
    /\ fl_pc = "yield"
    /\ fl_call.enforce_scalar = "never"
    /\ iterators # <<>>
    /\ thing.tag = "str"
    /\ Len(thing.s) = 2
    /\ fl_out[Len(fl_out)] = thing

(* the caller's protection of the item x *)
TypeProtected(x) == x.tag \in fl_call.protected_iterables
PredicateSays(x, r) ==
    /\ callable(fl_call.enforce_scalar)
    /\ enforce_scalar(fl_call.enforce_scalar, x) = r
PredicateFalse(x) == ~callable(fl_call.enforce_scalar) \/ PredicateSays(x, "false")

(* C4 as stated: a pulled item whose type is protected, or for which a    *)
(* callable enforce_scalar returns true, is emitted whole and not         *)
(* descended into; every other iterable non-text item is descended into   *)
(* and not emitted.                                                       *)
C4_AsStated ==
    [][Pulling =>
        /\ (TypeProtected(Peek(fl_it)) \/ PredicateSays(Peek(fl_it), "true"))
              => EmitsWhole(Peek(fl_it))
        /\ (/\ ~(TypeProtected(Peek(fl_it)) \/ PredicateSays(Peek(fl_it), "true"))
            /\ Iterable(Peek(fl_it))
            /\ Peek(fl_it).tag # "str")
              => DescendsInto(Peek(fl_it))]_vars

(* C4 amended: a pulled item whose type is protected, or for which a      *)
(* callable enforce_scalar returns true, is emitted whole and not         *)
(* descended into; every other iterable non-text item for which           *)
(* enforce_scalar is not callable or returns false is descended into and  *)
(* not emitted.                                                           *)
C4_ProtectionDecides ==
    [][Pulling =>
        /\ (TypeProtected(Peek(fl_it)) \/ PredicateSays(Peek(fl_it), "true"))
              => EmitsWhole(Peek(fl_it))
        /\ (/\ ~TypeProtected(Peek(fl_it))
            /\ PredicateFalse(Peek(fl_it))
            /\ Iterable(Peek(fl_it))
            /\ Peek(fl_it).tag # "str")
              => DescendsInto(Peek(fl_it))]_vars

(* a non-empty tuple inside a list was emitted whole because tuple is *)
(* protected, after the list around it was descended into             *)
C4_Witness ==
    /\ fl_pc = "yield"
    /\ fl_call.protected_iterables = {"tuple"}
    /\ fl_call.enforce_scalar = "never"
    /\ Len(iterators) = 1
    /\ iterators[1].over.tag = "list"
    /\ fl_it.over.tag = "list"
    /\ thing.tag = "tuple"
    /\ thing.kids # <<>>
    /\ fl_out = <<thing>>

TypeErrorCase ==
    \/ call.text.kind # "str"
    \/ call.maxsplit.kind \notin {"none", "int"}
    \/ call.sep.kind \notin {"none", "str"}
EmptySep == call.sep.kind = "str" /\ call.sep.val = <<>>
Consumed == pc \notin {"idle", "created"}

(* C5 as stated: consuming isplit fails with a type error when text is   *)
(* not a text, when maxsplit is neither none nor an integer, or when sep *)
(* is neither none nor a text; it fails with a value error when sep is   *)
(* the empty text; for every other combination no error is raised.       *)
C5_AsStated ==
    Consumed =>
        /\ TypeErrorCase => pc = "raised" /\ err = "TypeError"
        /\ EmptySep => pc = "raised" /\ err = "ValueError"
        /\ ~TypeErrorCase /\ ~EmptySep => pc # "raised" /\ err = "none"

(* C5 amended: consuming isplit fails with a type error when text is not *)
(* a text, when maxsplit is neither none nor an integer, or when sep is  *)
(* neither none nor a text; it fails with a value error when sep is the  *)
(* empty text and text and maxsplit are of the right types; for every    *)
(* other combination no error is raised.                                 *)
C5_ArgumentErrors ==
    Consumed =>
        /\ TypeErrorCase => pc = "raised" /\ err = "TypeError"
        /\ ~TypeErrorCase /\ EmptySep => pc = "raised" /\ err = "ValueError"
        /\ ~TypeErrorCase /\ ~EmptySep => pc # "raised" /\ err = "none"

(* the empty separator, with a text and an integer limit, has raised *)
C5_Witness ==
    /\ pc = "raised"
    /\ err = "ValueError"
    /\ EmptySep
    /\ Len(Text) = MaxTextLen
    /\ call.maxsplit.kind = "int"

(* C6: for an invalid combination of arguments the generator just        *)
(* constructed has raised nothing; once a request has been made the      *)
(* generator has raised and is finished, no field has been emitted, and  *)
(* no request after the error yields a field.                            *)
C6_ErrorsAreLazy ==
    TypeErrorCase \/ EmptySep =>
        /\ pc = "created" => err = "none" /\ last = "none" /\ out = <<>>
        /\ pc # "created" =>
              /\ pc = "raised"
              /\ err \in {"TypeError", "ValueError"}
              /\ out = <<>>
              /\ last \in {"error", "stop"}

(* a request made after the error of an empty separator found the *)
(* generator finished                                             *)
C6_Witness ==
    /\ EmptySep
    /\ ~TypeErrorCase
    /\ Text # <<>>
    /\ pc = "raised"
    /\ last = "stop"
    /\ out = <<>>

(* the first n fields, each followed by the separator *)
RECURSIVE JoinAfter(_, _, _)
JoinAfter(fields, n, d) ==
    IF n = 0 THEN <<>> ELSE JoinAfter(fields, n - 1, d) \o fields[n] \o d

IsSuffix(a, b) == Len(a) <= Len(b) /\ SubSeq(b, Len(b) - Len(a) + 1, Len(b)) = a
Before(a, b) == SubSeq(b, 1, Len(b) - Len(a))

(* the field emitted after maxsplit splits is all of the text that follows *)
(* the splits (in whitespace mode: from its first character that is not    *)
(* whitespace)                                                             *)
FinalFieldIsRemainder ==
    LET final == out[Len(out)]
    IN  /\ IsSuffix(final, Text)
        /\ LitMode => Before(final, Text) = JoinAfter(out, Len(out) - 1, Sep)
        /\ WsMode =>
              /\ ~isspace(final[1])
              /\ EagerSplitWs(Before(final, Text), -1) = SubSeq(out, 1, Len(out) - 1)

(* C7: for maxsplit N >= 0, in both modes, splitcount never exceeds N, at  *)
(* most N + 1 fields are emitted, once splitcount is N a field is emitted  *)
(* only when the text is exhausted, and that field holds everything that   *)
(* follows the N splits, later separators included.                        *)
C7_LimitFoldsTheRest ==
    /\ [](ValidCall /\ Limit >= 0 =>
            /\ splitcount <= Limit
            /\ Len(out) <= Limit + 1
            /\ Len(out) = Limit + 1 /\ pc \in {"yield_ws_end", "yield_lit_end", "done"}
                  => FinalFieldIsRemainder)
    /\ [][ValidCall /\ Limit >= 0 /\ splitcount = Limit /\ out' # out
              => it = TextLen /\ pc' \in {"yield_ws_end", "yield_lit_end"}]_vars

(* after one split the rest, with a separator in it, came as one field *)
C7_Witness ==
    /\ LitMode
    /\ Limit = 1
    /\ pc = "yield_lit_end"
    /\ splitcount = 1
    /\ Len(out) = 2
    /\ Occurrences(out[2], Sep) # {}

HasSpace(t) == \E i \in 1..Len(t) : isspace(t[i])

(* C8: in whitespace mode, for every text and every maxsplit, no emitted  *)
(* field is empty; a text that is empty or all whitespace yields no       *)
(* field; with maxsplit unlimited no field contains a whitespace          *)
(* character.                                                             *)
C8_WhitespaceFields ==
    ValidCall /\ WsMode =>
        /\ \A i \in 1..Len(out) : out[i] # <<>>
        /\ LStrip(Text) = <<>> => out = <<>>
        /\ Limit < 0 => \A i \in 1..Len(out) : ~HasSpace(out[i])

(* a word with whitespace before and after it was consumed, without limit *)
C8_Witness ==
    /\ ValidCall /\ WsMode
    /\ pc = "done"
    /\ Limit < 0
    /\ Len(Text) = MaxTextLen /\ isspace(Text[1]) /\ isspace(Text[Len(Text)])
    /\ Len(out) = 1

(* C9: in literal mode, for every text, separator and maxsplit, the end *)
(* of the text always emits a final field, empty or not: a consumed     *)
(* sequence is never empty and has splitcount + 1 fields, and the empty *)
(* text yields exactly one empty field.                                 *)
C9_FinalFieldAlways ==
    ValidCall /\ LitMode =>
        /\ pc \in {"yield_lit_end", "done"} =>
              /\ out # <<>>
              /\ Len(out) = splitcount + 1
              /\ Text = <<>> => out = << <<>> >>

(* a text that ends with the separator gave an empty final field *)
C9_Witness ==
    /\ LitMode
    /\ pc = "done"
    /\ Len(out) = 2
    /\ out[1] # <<>>
    /\ out[2] = <<>>

(* C10: for every text and separator, a negative maxsplit gives the same *)
(* fields as maxsplit none, and no field holds a separator occurrence.   *)
C10_NegativeIsUnlimited ==
    ValidCall /\ pc = "done" /\ Limit < 0 =>
        /\ out = Consume(NewFrame(call.text, call.sep, NoneSplit))
        /\ \A i \in 1..Len(out) :
              IF WsMode THEN ~HasSpace(out[i]) ELSE Occurrences(out[i], Sep) = {}

(* a text with two separators was split in three with maxsplit -2 *)
C10_Witness ==
    /\ ValidCall
    /\ pc = "done"
    /\ call.maxsplit = IntArg(-2)
    /\ Len(out) = 3
    /\ LitMode

(* ================================================== claims: laziness *)
Suspended == pc \in {"yield_ws", "yield_lit", "yield_ws_end", "yield_lit_end"}
Terminated == pc \in {"done", "raised"}

(* C11: isplit and flatten consume input only inside a consumer request    *)
(* and a request stops at its first emission.  When isplit has emitted a   *)
(* field before the limit, the characters read end with the delimiter:     *)
(* the separator occurrence after the field, or the first whitespace       *)
(* character after it.  When flatten has emitted an element, the item      *)
(* pulled last is that element.  Between requests nothing is consumed.     *)
C11_DemandDriven ==
    /\ [](/\ pc = "created" => it = 0 /\ out = <<>>
          /\ pc = "yield_lit" =>
                SubSeq(Text, 1, it) = JoinAfter(out, Len(out), Sep)
          /\ pc = "yield_ws" =>
                /\ it > Len(out[Len(out)])
                /\ isspace(Text[it])
                /\ SubSeq(Text, it - Len(out[Len(out)]), it - 1) = out[Len(out)]
          /\ fl_pc = "created" => fl_it.idx = 0 /\ iterators = <<>> /\ fl_out = <<>>
          /\ fl_pc = "yield" =>
                /\ fl_it.idx >= 1
                /\ Items(fl_it.over)[fl_it.idx] = thing
                /\ fl_out[Len(fl_out)] = thing)
    /\ [][/\ pc = "created" \/ Suspended \/ Terminated => it' = it /\ out' = out
          /\ fl_pc \in {"created", "yield", "done", "raised"} =>
                fl_it' = fl_it /\ iterators' = iterators /\ fl_out' = fl_out]_vars

(* a first field was emitted before the limit with text left unread *)
C11_Witness ==
    /\ pc = "yield_ws"
    /\ Limit = 2
    /\ splitcount = 0
    /\ it = 2
    /\ Len(Text) = MaxTextLen
    /\ isspace(Text[3])

(* ========================================= claims: flatten, continued *)
(* x is a flat sequence: iterable, and none of its items is a container *)
FlatScalars(x) ==
    /\ Iterable(x)
    /\ \A i \in 1..Len(Items(x)) : ~IsContainer(Items(x)[i])

(* the predicate is called for x and raises something the try statement *)
(* of lines 100-107 does not catch                                      *)
PredicateEscapes(x) ==
    /\ x.tag \notin string_types
    /\ ~TypeProtected(x)
    /\ callable(fl_call.enforce_scalar)
    /\ enforce_scalar(fl_call.enforce_scalar, x)
          \notin {"true", "false", "TypeError", "ValueError"}

(* C12: for a flat sequence S of scalars (values that are not iterable, or *)
(* texts), flatten(S) raises nothing, what it has emitted is at every      *)
(* moment a prefix of the elements of S, and at exhaustion it is exactly   *)
(* the elements of S, in order and as many; this for the default arguments *)
(* of the claim and for every protected_iterables and enforce_scalar that  *)
(* raise nothing but TypeError and ValueError for the elements of S.       *)
C12_FlatIsIdentity ==
    (/\ fl_pc # "idle"
     /\ FlatScalars(Root)
     /\ \A i \in 1..Len(Items(Root)) : ~PredicateEscapes(Items(Root)[i]))
        => /\ fl_pc # "raised"
           /\ IsPrefix(fl_out, Items(Root))
           /\ fl_pc = "done" => fl_out = Items(Root) /\ Len(fl_out) = Len(Items(Root))

(* a list of three scalars, a number and a text among them, has been *)
(* flattened with the default arguments                               *)
C12_Witness ==
    /\ fl_pc = "done"
    /\ NoProtection
    /\ Root.tag = "list"
    /\ Len(Root.kids) = 3
    /\ FlatScalars(Root)
    /\ \E i, j \in 1..3 : Root.kids[i].tag = "int" /\ Root.kids[j].tag = "str"
    /\ fl_out = Root.kids

(* C13: flatten of a top-level value that is not iterable raises nothing *)
(* when it is called; the first request raises TypeError, and no element *)
(* is emitted before it.                                                 *)
C13_NonIterableTopLevel ==
    /\ []((fl_pc # "idle" /\ ~Iterable(Root)) =>
            \/ fl_pc = "created" /\ fl_err = "none" /\ fl_last = "none" /\ fl_out = <<>>
            \/ fl_pc = "raised" /\ fl_err = "TypeError" /\ fl_out = <<>>)
    /\ [][(fl_pc = "created" /\ ~Iterable(Root)) =>
            fl_pc' = "raised" /\ fl_err' = "TypeError" /\ fl_last' = "error"]_vars

(* the first request on flatten of a number has raised *)
C13_Witness ==
    /\ fl_pc = "raised"
    /\ Root.tag = "int"
    /\ fl_last = "error"
    /\ fl_out = <<>>

(* ================================================== claims: every_nth *)
(* the elements of items at the 1-based positions p >= from with *)
(* p mod n = shift mod n, in order                               *)
RECURSIVE Selected(_, _, _, _)
Selected(items, from, n, shift) ==
    IF from > Len(items) THEN <<>>
    ELSE (IF from % n = shift % n THEN <<items[from]>> ELSE <<>>)
            \o Selected(items, from + 1, n, shift)

ValidNth ==
    /\ en_call.n.kind = "int"
    /\ en_call.n.n >= 1
    /\ en_call.shift.kind = "int"
    /\ en_call.thing.iterable

(* C14: for every integer n >= 1 and every integer shift, negative ones  *)
(* included, every_nth raises nothing and yields exactly the elements    *)
(* whose 1-based position p satisfies p mod n = shift mod n, in order;   *)
(* for n = 1 these are all the elements, whatever shift is.              *)
C14_EveryNthSelects ==
    (en_pc # "idle" /\ ValidNth) =>
        /\ en_pc # "raised"
        /\ IsPrefix(en_out, Selected(EnItems, 1, en_call.n.n, en_call.shift.n))
        /\ en_pc = "done" =>
              en_out = Selected(EnItems, 1, en_call.n.n, en_call.shift.n)
        /\ (en_pc = "done" /\ en_call.n.n = 1) => en_out = EnItems

(* every second element, with a negative shift, of four elements the *)
(* first two of which differ                                         *)
C14_Witness ==
    /\ en_pc = "done"
    /\ en_call.n = IntArg(2)
    /\ en_call.shift = IntArg(-1)
    /\ Len(EnItems) = 4
    /\ EnItems[1] # EnItems[2]
    /\ en_out = <<EnItems[1], EnItems[3]>>

(* the iterators of the traversal, outermost first: the suspended ones and *)
(* the one being read                                                      *)
Levels == Append(iterators, fl_it)

(* the iterators follow one path down from the top-level value: the first  *)
(* reads the top-level value, and each next one reads the item its parent  *)
(* produced last, so that the one being read is at nesting depth           *)
(* Len(Levels), the top level being depth 1                                *)
OnePath ==
    /\ Levels[1].over = Root
    /\ \A k \in 1..Len(iterators) :
          /\ Levels[k].idx >= 1
          /\ Levels[k + 1].over = Items(Levels[k].over)[Levels[k].idx]

(* flatten descends into x: x is iterable, not a text, not of a protected *)
(* type, and the predicate is not callable or returns false for it        *)
Descended(x) ==
    /\ Iterable(x)
    /\ x.tag \notin string_types
    /\ ~TypeProtected(x)
    /\ PredicateFalse(x)

(* C15: in every state of a flatten call the suspended iterators on the   *)
(* stack are the ancestors of the iterator being read, so their number is *)
(* its nesting depth minus one (the top level is depth 1); a step pushes  *)
(* one iterator, the parent, exactly when it descends into a non-         *)
(* protected iterable, pops one exactly when the level being read is      *)
(* exhausted below the top level, and leaves the stack alone otherwise.   *)
C15_StackIsDepth ==
    /\ [](fl_pc # "idle" => OnePath)
    /\ [][/\ Len(iterators') = Len(iterators) + 1
                <=> (Pulling /\ Descended(Peek(fl_it)))
          /\ Len(iterators') = Len(iterators) + 1
                => iterators' = Append(iterators, Advance(fl_it))
          /\ Len(iterators') = Len(iterators) - 1
                <=> (fl_pc = "loop" /\ Exhausted(fl_it) /\ iterators # <<>>)
          /\ Len(iterators') = Len(iterators) - 1
                => /\ fl_it' = iterators[Len(iterators)]
                   /\ iterators' = SubSeq(iterators, 1, Len(iterators) - 1)
          /\ Len(iterators') \in {Len(iterators) - 1, Len(iterators),
                                  Len(iterators) + 1}
          /\ Len(iterators') = Len(iterators) => iterators' = iterators]_vars

(* an element was emitted at depth 3, two iterators suspended *)
C15_Witness ==
    /\ fl_pc = "yield"
    /\ Len(iterators) = 2
    /\ OnePath
    /\ fl_it.over # Root
    /\ fl_out = <<thing>>

(* ================================================ claims: the window *)
(* the literal-separator loop is about to read a character *)
Scanning == ValidCall /\ LitMode /\ pc = "lit" /\ it < Len(Text)

(* reading one character moves the window: a window that already holds *)
(* len(sep) characters gives its front character to the accumulator,   *)
(* and the character read enters at the back                           *)
Evicts ==
    IF Len(window) = Len(Sep)
    THEN /\ chunk' = Append(chunk, Head(window))
         /\ IsPrefix(Append(Tail(window), Text[it + 1]), window')
    ELSE /\ chunk' = chunk
         /\ IsPrefix(Append(window, Text[it + 1]), window')

(* line 294 has run: a separator occurrence was found with the split    *)
(* count at the limit, and window is that occurrence followed by all of *)
(* the text after it                                                    *)
FoldedWindow ==
    /\ splitcount = Limit
    /\ it = Len(Text)
    /\ IsPrefix(Sep, window)
    /\ IsSuffix(window, Text)

(* C16 as stated: in literal mode, in every state, also after the split  *)
(* count has reached max_splits, the window holds at most len(sep) + 1   *)
(* characters, and every character pushed out of the window moves from   *)
(* its front into the accumulator.                                       *)
C16_AsStated ==
    /\ [](ValidCall /\ LitMode => Len(window) <= Len(Sep) + 1)
    /\ [][Scanning => Evicts]_vars

(* C16 amended: in literal mode the window holds at most len(sep) + 1    *)
(* characters in every state but those that follow a separator           *)
(* occurrence found with the split count at max_splits, where it holds   *)
(* that occurrence and all of the text after it; and every character     *)
(* pushed out of the window moves from its front into the accumulator.   *)
C16_WindowBounded ==
    /\ [](ValidCall /\ LitMode => Len(window) <= Len(Sep) + 1 \/ FoldedWindow)
    /\ [][Scanning => Evicts]_vars

(* with maxsplit 0 a one-character separator at the head of the text put *)
(* the whole text in the window                                          *)
C16_Witness ==
    /\ LitMode
    /\ pc = "yield_lit_end"
    /\ Limit = 0
    /\ Len(Sep) = 1
    /\ Len(Text) = MaxTextLen
    /\ window = Text

(* =============================================== claims: termination *)
(* the predicate raises nothing that lines 100-107 let through *)
TamePredicate ==
    \/ ~callable(fl_call.enforce_scalar)
    \/ \A x \in Things :
          enforce_scalar(fl_call.enforce_scalar, x)
              \in {"true", "false", "TypeError", "ValueError"}

(* C17: for every finite nested structure, a consumer that keeps         *)
(* requesting elements from flatten reaches the end of the sequence      *)
(* (exhaustion, when the top-level value is iterable and the predicate   *)
(* lets no exception through; an exception otherwise), and exhaustion is *)
(* signalled only with the stack empty and the top-level iterator        *)
(* exhausted, so never while an unread sibling remains at a suspended    *)
(* level.                                                                *)
C17_ReachesExhaustion ==
    /\ [](fl_pc = "done" =>
            /\ iterators = <<>>
            /\ fl_it.over = Root
            /\ Exhausted(fl_it))
    /\ [](fl_pc = "raised" => ~Iterable(Root) \/ ~TamePredicate)
    /\ <>(fl_pc \in {"done", "raised"} /\ fl_last \in {"stop", "error"})

(* exhaustion was signalled after a nested container had been descended *)
(* into and the sibling that follows it had been read                   *)
C17_Witness ==
    /\ fl_pc = "done"
    /\ fl_last = "stop"
    /\ NoProtection
    /\ iterators = <<>>
    /\ Exhausted(fl_it)
    /\ Len(Root.kids) = 2
    /\ IsContainer(Root.kids[1])
    /\ fl_out = <<Root.kids[2]>>

(* ============================================== claims: boundaries *)
(* the fields joined with d between them *)
Join(fields, d) ==
    IF fields = <<>> THEN <<>>
    ELSE JoinAfter(fields, Len(fields) - 1, d) \o fields[Len(fields)]

(* the position of the last character of the boundary before the one just *)
(* detected, 0 when there is none: the fields before the last one, each    *)
(* followed by the separator, are the text up to it                       *)
PreviousEnd == Len(JoinAfter(out, Len(out) - 1, Sep))

(* C18: in literal mode every boundary isplit detects is an occurrence of *)
(* sep in the text that starts after the end of the previous boundary, so *)
(* no character belongs to two boundaries, and it is the leftmost         *)
(* occurrence that does.                                                  *)
C18_LeftmostBoundaries ==
    (ValidCall /\ LitMode /\ pc = "yield_lit") =>
        LET start == it - Len(Sep) + 1
        IN  /\ SubSeq(Text, start, it) = Sep
            /\ PreviousEnd = 0
                  \/ SubSeq(Text, PreviousEnd - Len(Sep) + 1, PreviousEnd) = Sep
            /\ start > PreviousEnd
            /\ start = Min({i \in Occurrences(Text, Sep) : i > PreviousEnd})

(* the second boundary of a text in which separator occurrences overlap *)
C18_Witness ==
    /\ LitMode
    /\ pc = "yield_lit"
    /\ Len(Sep) = 2
    /\ Len(out) = 2
    /\ Cardinality(Occurrences(Text, Sep)) = 3
    /\ it = 4

(* C19: in literal mode, for every text, every non-empty sep and every   *)
(* maxsplit (none, negative, zero, positive), the fields of a consumed   *)
(* sequence joined with sep are the text.                                *)
C19_RoundTrip ==
    (ValidCall /\ LitMode /\ pc \in {"yield_lit_end", "done"}) =>
        Join(out, Sep) = Text

(* after one split the final field kept a later separator occurrence *)
C19_Witness ==
    /\ LitMode
    /\ pc = "done"
    /\ Limit = 1
    /\ Len(Text) = MaxTextLen
    /\ Len(out) = 2
    /\ out[1] # <<>>
    /\ Occurrences(out[2], Sep) # {}
    /\ Join(out, Sep) = Text

(* ======================================= claims: predicate exceptions *)
(* the predicate is called for x, x being of no protected type, and *)
(* raises E                                                          *)
PredicateRaises(x, E) ==
    /\ x.tag \notin string_types
    /\ ~TypeProtected(x)
    /\ PredicateSays(x, E)

(* C20: when enforce_scalar raises TypeError or ValueError for a pulled   *)
(* item, nothing is raised to the consumer: the item is emitted as one    *)
(* element and not descended into, the stack is unchanged, and the        *)
(* current iterator stands at the item's next sibling.                    *)
C20_PredicateErrorsSwallowed ==
    [][(/\ Pulling
        /\ \/ PredicateRaises(Peek(fl_it), "TypeError")
           \/ PredicateRaises(Peek(fl_it), "ValueError"))
          => /\ EmitsWhole(Peek(fl_it))
             /\ fl_err' = "none"
             /\ fl_last' = "element"]_vars

(* a list with items in it was emitted whole because the predicate raised *)
(* ValueError for it, and so was the sibling that follows it              *)
C20_Witness ==
    /\ fl_pc = "yield"
    /\ fl_call.enforce_scalar = "raises_value"
    /\ fl_call.protected_iterables = {}
    /\ fl_err = "none"
    /\ iterators = <<>>
    /\ Len(fl_out) = 2
    /\ fl_out[1].tag = "list"
    /\ fl_out[1].kids # <<>>
    /\ IsContainer(fl_out[2])
    /\ fl_out = Root.kids
====
